---- MODULE Spec2Model ----
(***************************************************************************)
(* Model of the upload sub command of ffsend, cli/src/cmd/cmd_upload.rs:   *)
(* the argument matches the accessor borrows, and the accessors name(),    *)
(* file(), host(), open() and password() called on it by the upload        *)
(* action.  Strings that the code inspects character by character (the     *)
(* name, the password) are sequences of one-character strings; strings     *)
(* the code hands to the URL parser or prints are TLA+ strings.            *)
(***************************************************************************)
EXTENDS Integers, Sequences, FiniteSets, TLC

VARIABLES args, pc, lastCall, diag, panicMsg, prompts, pwCalls, calls, pwTrace,
          promptResult

vars == <<args, pc, lastCall, diag, panicMsg, prompts, pwCalls, calls, pwTrace,
          promptResult>>

(* ---------------- bounds ---------------- *)
MaxNameLen == 3
MaxPwLen == 2
MaxCalls == 3

(* ---------------- Option<T> ---------------- *)
None == [some |-> FALSE]
Some(x) == [some |-> TRUE, val |-> x]

(* ---------------- strings as character sequences ---------------- *)
RECURSIVE SeqsUpTo(_, _)
SeqsUpTo(S, n) ==
    IF n = 0 THEN {<<>>}
    ELSE LET shorter == SeqsUpTo(S, n - 1)
         IN  shorter \cup {Append(s, c) : s \in {t \in shorter : Len(t) = n - 1}, c \in S}

NameChars == {"a", " ", "\t"}
PwChars == {"x"}

\* char::is_whitespace, restricted to the characters of the model
IsWhitespace(c) == c \in {" ", "\t", "\n"}

RECURSIVE TrimStart(_)
TrimStart(s) ==
    IF s # <<>> /\ IsWhitespace(Head(s)) THEN TrimStart(Tail(s)) ELSE s

RECURSIVE TrimEnd(_)
TrimEnd(s) ==
    IF s # <<>> /\ IsWhitespace(s[Len(s)]) THEN TrimEnd(SubSeq(s, 1, Len(s) - 1)) ELSE s

\* str::trim
Trim(s) == TrimEnd(TrimStart(s))

\* str::is_empty
IsEmpty(s) == Len(s) = 0

(* ---------------- the URL parser ---------------- *)
\* app::SEND_DEF_HOST
SEND_DEF_HOST == "https://send.firefox.com/"

\* The raw host strings of the model: accepted addresses in several
\* spellings, and one rejected string for each failure kind of the parser.
RawHosts ==
    { "https://send.firefox.com/",
      "https://send.firefox.com",
      "HTTPS://Send.Example.COM:443",
      "http://localhost:8080",
      "https://",
      "https://send.example.com:99999",
      "https://256.256.256.256",
      "https://[1::2::3]",
      "https://send example.com",
      "send.example.com",
      "",
      "http://a.b.c.xn--pokxncvks" }

Ok(u) == [ok |-> TRUE, url |-> u]
Err(k) == [ok |-> FALSE, err |-> k]

\* Url::parse on the raw host strings of the model.  An accepted string
\* yields the serialisation of the parsed address (scheme and host in lower
\* case, default port dropped, empty path made "/"), which is what two Url
\* values are compared by.
UrlParse(s) ==
    CASE s = "https://send.firefox.com/"      -> Ok("https://send.firefox.com/")
      [] s = "https://send.firefox.com"       -> Ok("https://send.firefox.com/")
      [] s = "HTTPS://Send.Example.COM:443"   -> Ok("https://send.example.com/")
      [] s = "http://localhost:8080"          -> Ok("http://localhost:8080/")
      [] s = "https://"                       -> Err("EmptyHost")
      [] s = "https://send.example.com:99999" -> Err("InvalidPort")
      [] s = "https://256.256.256.256"        -> Err("InvalidIpv4Address")
      [] s = "https://[1::2::3]"              -> Err("InvalidIpv6Address")
      [] s = "https://send example.com"       -> Err("InvalidDomainCharacter")
      [] s = "send.example.com"               -> Err("RelativeUrlWithoutBase")
      [] s = ""                               -> Err("RelativeUrlWithoutBase")
      [] s = "http://a.b.c.xn--pokxncvks"     -> Err("IdnaError")
      [] OTHER                                -> Err("RelativeUrlWithoutBase")

\* The failure kinds host() names, and those it leaves to the catch-all arm.
NamedKinds ==
    { "EmptyHost", "InvalidPort", "InvalidIpv4Address", "InvalidIpv6Address",
      "InvalidDomainCharacter", "RelativeUrlWithoutBase" }
OtherKinds ==
    { "IdnaError", "RelativeUrlWithCannotBeABaseBase",
      "SetHostOnCannotBeABaseUrl", "Overflow" }
ParseErrorKinds == NamedKinds \cup OtherKinds

(* ---------------- the argument matches ---------------- *)
Names == SeqsUpTo(NameChars, MaxNameLen)
Passwords == SeqsUpTo(PwChars, MaxPwLen)

\* What the command line gave for each argument of build().  password is
\* absent, present without a value, or present with a value.
ArgSets ==
    [ file     : {"secret.txt"},
      name     : {None} \cup {Some(n) : n \in Names},
      password : {[present |-> FALSE, value |-> None], [present |-> TRUE, value |-> None]}
                 \cup {[present |-> TRUE, value |-> Some(p)] : p \in Passwords},
      host     : {None} \cup {Some(h) : h \in RawHosts},
      open     : BOOLEAN ]

\* value_of("host") had the schema declared no default for host
ValueOfHost_NoDefault == args.host

\* matches.value_of(key); host falls back to its default_value
ValueOfHost == IF args.host.some THEN args.host ELSE Some(SEND_DEF_HOST)
ValueOfName == args.name
ValueOfFile == Some(args.file)
ValueOfPassword == args.password.value

\* matches.is_present(key)
IsPresentPassword == args.password.present
IsPresentOpen == args.open

(* ---------------- results of a call ---------------- *)
Returned(f, v) == [fn |-> f, outcome |-> "returned", value |-> v]
Aborted(f, how) == [fn |-> f, outcome |-> how]

Init ==
    /\ args \in ArgSets
    /\ pc = "running"
    /\ lastCall = [fn |-> "none", outcome |-> "none"]
    /\ diag = <<>>
    /\ panicMsg = None
    /\ prompts = 0
    /\ pwCalls = 0
    /\ calls = 0
    /\ pwTrace = <<"Unrequested">>
    /\ promptResult = [kind |-> "none"]

CanCall == pc = "running" /\ calls < MaxCalls

\* panic!(msg) and Option::expect(msg) on None
Panic(f, msg) ==
    /\ pc' = "panicked"
    /\ panicMsg' = Some(msg)
    /\ lastCall' = Aborted(f, "panicked")

\* util::quit_error_msg: print the message, then end the process
QuitErrorMsg(f, msg) ==
    /\ pc' = "exited"
    /\ diag' = Append(diag, msg)
    /\ lastCall' = Aborted(f, "quit")

\* name() returning the trimmed name instead of the raw one
CallName_Trimmed ==
    /\ CanCall
    /\ calls' = calls + 1
    /\ IF ~ValueOfName.some
       THEN /\ lastCall' = Returned("name", None)
            /\ UNCHANGED <<pc, panicMsg>>
       ELSE IF IsEmpty(Trim(ValueOfName.val))
       THEN Panic("name", "the new name must not be empty")
       ELSE /\ lastCall' = Returned("name", Some(Trim(ValueOfName.val)))
            /\ UNCHANGED <<pc, panicMsg>>
    /\ UNCHANGED <<args, diag, prompts, pwCalls, pwTrace, promptResult>>

\* name() testing name.is_empty() without the trim
CallName_NoTrim ==
    /\ CanCall
    /\ calls' = calls + 1
    /\ IF ~ValueOfName.some
       THEN /\ lastCall' = Returned("name", None)
            /\ UNCHANGED <<pc, panicMsg>>
       ELSE IF IsEmpty(ValueOfName.val)
       THEN Panic("name", "the new name must not be empty")
       ELSE /\ lastCall' = Returned("name", Some(ValueOfName.val))
            /\ UNCHANGED <<pc, panicMsg>>
    /\ UNCHANGED <<args, diag, prompts, pwCalls, pwTrace, promptResult>>

\* CmdUpload::name
CallName ==
    /\ CanCall
    /\ calls' = calls + 1
    /\ IF ~ValueOfName.some
       THEN /\ lastCall' = Returned("name", None)
            /\ UNCHANGED <<pc, panicMsg>>
       ELSE IF IsEmpty(Trim(ValueOfName.val))
       THEN Panic("name", "the new name must not be empty")
       ELSE /\ lastCall' = Returned("name", Some(ValueOfName.val))
            /\ UNCHANGED <<pc, panicMsg>>
    /\ UNCHANGED <<args, diag, prompts, pwCalls, pwTrace, promptResult>>

\* CmdUpload::file
CallFile ==
    /\ CanCall
    /\ calls' = calls + 1
    /\ IF ValueOfFile.some
       THEN /\ lastCall' = Returned("file", ValueOfFile.val)
            /\ UNCHANGED <<pc, panicMsg>>
       ELSE Panic("file", "no file specified to upload")
    /\ UNCHANGED <<args, diag, prompts, pwCalls, pwTrace, promptResult>>

\* The match of host() with the messages of the two IP arms exchanged
HostErrorMsg_SwappedIp(kind) ==
    CASE kind = "EmptyHost"              -> "Emtpy host given"
      [] kind = "InvalidPort"            -> "Invalid host port"
      [] kind = "InvalidIpv4Address"     -> "Invalid IPv6 address in host"
      [] kind = "InvalidIpv6Address"     -> "Invalid IPv4 address in host"
      [] kind = "InvalidDomainCharacter" -> "Host domains contains an invalid character"
      [] kind = "RelativeUrlWithoutBase" -> "Host domain doesn't contain a host"
      [] OTHER                           -> "The given host is invalid"

\* The message of each arm of the match in CmdUpload::host
HostErrorMsg(kind) ==
    CASE kind = "EmptyHost"              -> "Emtpy host given"
      [] kind = "InvalidPort"            -> "Invalid host port"
      [] kind = "InvalidIpv4Address"     -> "Invalid IPv4 address in host"
      [] kind = "InvalidIpv6Address"     -> "Invalid IPv6 address in host"
      [] kind = "InvalidDomainCharacter" -> "Host domains contains an invalid character"
      [] kind = "RelativeUrlWithoutBase" -> "Host domain doesn't contain a host"
      [] OTHER                           -> "The given host is invalid"

\* host() reporting a parse failure and carrying on with the default host
CallHost_ReturnsOnError ==
    /\ CanCall
    /\ calls' = calls + 1
    /\ LET parsed == UrlParse(ValueOfHost.val)
       IN  IF parsed.ok
           THEN /\ lastCall' = Returned("host", parsed.url)
                /\ UNCHANGED diag
           ELSE /\ lastCall' = Returned("host", UrlParse(SEND_DEF_HOST).url)
                /\ diag' = Append(diag, HostErrorMsg(parsed.err))
    /\ UNCHANGED <<args, pc, panicMsg, prompts, pwCalls, pwTrace, promptResult>>

\* CmdUpload::host
CallHost ==
    /\ CanCall
    /\ calls' = calls + 1
    /\ IF ~ValueOfHost.some
       THEN /\ Panic("host", "missing host")
            /\ UNCHANGED diag
       ELSE LET parsed == UrlParse(ValueOfHost.val)
            IN  IF parsed.ok
                THEN /\ lastCall' = Returned("host", parsed.url)
                     /\ UNCHANGED <<pc, diag, panicMsg>>
                ELSE /\ QuitErrorMsg("host", HostErrorMsg(parsed.err))
                     /\ UNCHANGED panicMsg
    /\ UNCHANGED <<args, prompts, pwCalls, pwTrace, promptResult>>

\* CmdUpload::open
CallOpen ==
    /\ CanCall
    /\ calls' = calls + 1
    /\ lastCall' = Returned("open", IsPresentOpen)
    /\ UNCHANGED <<args, pc, diag, panicMsg, prompts, pwCalls, pwTrace, promptResult>>

\* password() taking an empty explicit value for no password
CallPassword_EmptyIsUnset ==
    /\ CanCall
    /\ calls' = calls + 1
    /\ pwCalls' = pwCalls + 1
    /\ IF ~IsPresentPassword \/ ValueOfPassword = Some(<<>>)
       THEN /\ lastCall' = Returned("password", None)
            /\ pwTrace' = <<"Unrequested", "Unset">>
            /\ UNCHANGED <<pc, prompts, promptResult>>
       ELSE IF ValueOfPassword.some
       THEN /\ lastCall' = Returned("password", Some(ValueOfPassword.val))
            /\ pwTrace' = <<"Unrequested", "ExplicitValue">>
            /\ UNCHANGED <<pc, prompts, promptResult>>
       ELSE /\ lastCall' = [fn |-> "password", outcome |-> "pending"]
            /\ pwTrace' = <<"Unrequested", "PromptPending">>
            /\ pc' = "prompting"
            /\ prompts' = prompts + 1
            /\ promptResult' = [kind |-> "none"]
    /\ UNCHANGED <<args, diag, panicMsg>>

\* password() asking twice (entry and confirmation) on each prompt
CallPassword_PromptTwice ==
    /\ CanCall
    /\ calls' = calls + 1
    /\ pwCalls' = pwCalls + 1
    /\ IF ~IsPresentPassword
       THEN /\ lastCall' = Returned("password", None)
            /\ pwTrace' = <<"Unrequested", "Unset">>
            /\ UNCHANGED <<pc, prompts, promptResult>>
       ELSE IF ValueOfPassword.some
       THEN /\ lastCall' = Returned("password", Some(ValueOfPassword.val))
            /\ pwTrace' = <<"Unrequested", "ExplicitValue">>
            /\ UNCHANGED <<pc, prompts, promptResult>>
       ELSE /\ lastCall' = [fn |-> "password", outcome |-> "pending"]
            /\ pwTrace' = <<"Unrequested", "PromptPending">>
            /\ pc' = "prompting"
            /\ prompts' = prompts + 2
            /\ promptResult' = [kind |-> "none"]
    /\ UNCHANGED <<args, diag, panicMsg>>

\* password() without the is_present test: it prompts whenever no value came
CallPassword_NoPresenceCheck ==
    /\ CanCall
    /\ calls' = calls + 1
    /\ pwCalls' = pwCalls + 1
    /\ IF ValueOfPassword.some
       THEN /\ lastCall' = Returned("password", Some(ValueOfPassword.val))
            /\ pwTrace' = <<"Unrequested", "ExplicitValue">>
            /\ UNCHANGED <<pc, prompts, promptResult>>
       ELSE /\ lastCall' = [fn |-> "password", outcome |-> "pending"]
            /\ pwTrace' = <<"Unrequested", "PromptPending">>
            /\ pc' = "prompting"
            /\ prompts' = prompts + 1
            /\ promptResult' = [kind |-> "none"]
    /\ UNCHANGED <<args, diag, panicMsg>>

\* CmdUpload::password, up to its return or to the prompt it blocks on
CallPassword ==
    /\ CanCall
    /\ calls' = calls + 1
    /\ pwCalls' = pwCalls + 1
    /\ IF ~IsPresentPassword
       THEN /\ lastCall' = Returned("password", None)
            /\ pwTrace' = <<"Unrequested", "Unset">>
            /\ UNCHANGED <<pc, prompts, promptResult>>
       ELSE IF ValueOfPassword.some
       THEN /\ lastCall' = Returned("password", Some(ValueOfPassword.val))
            /\ pwTrace' = <<"Unrequested", "ExplicitValue">>
            /\ UNCHANGED <<pc, prompts, promptResult>>
       ELSE /\ lastCall' = [fn |-> "password", outcome |-> "pending"]
            /\ pwTrace' = <<"Unrequested", "PromptPending">>
            /\ pc' = "prompting"
            /\ prompts' = prompts + 1
            /\ promptResult' = [kind |-> "none"]
    /\ UNCHANGED <<args, diag, panicMsg>>

\* prompt_password_stderr returns Ok(line): password() returns Some(line)
PromptRead(line) ==
    /\ pc = "prompting"
    /\ pc' = "running"
    /\ lastCall' = Returned("password", Some(line))
    /\ pwTrace' = Append(pwTrace, "PromptResolved")
    /\ promptResult' = [kind |-> "line", line |-> line]
    /\ UNCHANGED <<args, diag, panicMsg, prompts, pwCalls, calls>>

\* the read error swallowed: password() returns an empty password
PromptFail_Swallowed ==
    /\ pc = "prompting"
    /\ pc' = "running"
    /\ lastCall' = Returned("password", Some(<<>>))
    /\ promptResult' = [kind |-> "error"]
    /\ UNCHANGED <<args, diag, panicMsg, prompts, pwCalls, calls, pwTrace>>

\* prompt_password_stderr returns Err: the expect() panics
PromptFail ==
    /\ pc = "prompting"
    /\ Panic("password", "failed to read password from stdin")
    /\ promptResult' = [kind |-> "error"]
    /\ UNCHANGED <<args, diag, prompts, pwCalls, calls, pwTrace>>

Next ==
    \/ CallName
    \/ CallFile
    \/ CallHost
    \/ CallOpen
    \/ CallPassword
    \/ \E line \in Passwords : PromptRead(line)
    \/ PromptFail

Spec == Init /\ [][Next]_vars

(***************************************************************************)
(* Properties                                                              *)
(***************************************************************************)
\* the last call was host() and it ended in quit_error_msg on failure kind k
HostFailedWith(k) ==
    /\ lastCall.fn = "host"
    /\ lastCall.outcome = "quit"
    /\ ~UrlParse(ValueOfHost.val).ok
    /\ UrlParse(ValueOfHost.val).err = k

\* the message the specification's table gives for a failure kind
TableMsg(k) ==
    CASE k = "EmptyHost"              -> "Empty host given"
      [] k = "InvalidPort"            -> "Invalid host port"
      [] k = "InvalidIpv4Address"     -> "Invalid IPv4 address in host"
      [] k = "InvalidIpv6Address"     -> "Invalid IPv6 address in host"
      [] k = "InvalidDomainCharacter" -> "Host domains contains an invalid character"
      [] k = "RelativeUrlWithoutBase" -> "Host domain doesn't contain a host"
      [] OTHER                        -> "The given host is invalid"

\* a string that is empty or holds whitespace only
AllWhitespace(s) == \A i \in 1..Len(s) : IsWhitespace(s[i])

\* C1: when parsing the raw host fails with the empty-host kind, host()
\* emits exactly the message "Empty host given" and the process ends.
C1_EmptyHostMessage ==
    HostFailedWith("EmptyHost") => diag = <<"Empty host given">> /\ pc = "exited"

\* C2: for every failure kind other than empty host, host() emits exactly
\* the one message the table gives for the kind, every remaining kind gets
\* the catch-all message, the mapping leaves no kind without a message, and
\* no two named kinds share a message.
C2_OtherKindMessages ==
    /\ \A k \in ParseErrorKinds \ {"EmptyHost"} :
          HostFailedWith(k) => diag = <<TableMsg(k)>> /\ pc = "exited"
    /\ \A k \in ParseErrorKinds \ {"EmptyHost"} : HostErrorMsg(k) = TableMsg(k)
    /\ \A k \in OtherKinds : HostErrorMsg(k) = "The given host is invalid"
    /\ \A k1, k2 \in NamedKinds : k1 # k2 => HostErrorMsg(k1) # HostErrorMsg(k2)

C2_Witness ==
    /\ HostFailedWith("InvalidIpv6Address")
    /\ diag = <<"Invalid IPv6 address in host">>

\* C3: host() returns to its caller if and only if parsing the raw host
\* succeeds, and then returns the address that parsing that string gives; on
\* a parse failure the process ends after one diagnostic and the call yields
\* no value.
C3_HostReturnsIffParsed ==
    /\ lastCall.fn = "host" =>
          LET parsed == UrlParse(IF args.host.some THEN args.host.val ELSE SEND_DEF_HOST)
          IN  /\ (lastCall.outcome = "returned") <=> parsed.ok
              /\ parsed.ok => lastCall = Returned("host", parsed.url) /\ pc = "running"
              /\ ~parsed.ok => /\ lastCall = Aborted("host", "quit")
                               /\ pc = "exited"
                               /\ Len(diag) = 1
    /\ pc = "exited" => lastCall = Aborted("host", "quit")

C3_Witness ==
    /\ args.host = Some("HTTPS://Send.Example.COM:443")
    /\ lastCall.fn = "host"
    /\ lastCall.outcome = "returned"
    /\ lastCall.value = "https://send.example.com/"

\* C4: password() is decided by how the flag was given: absent, it returns
\* None; given with a value x, it returns Some(x) unchanged and without a
\* prompt, the empty x included; given without a value, what it returns is
\* Some(line) for the line read at the prompt.
C4_PasswordByFlag ==
    lastCall.fn = "password" =>
        /\ ~args.password.present => lastCall = Returned("password", None) /\ prompts = 0
        /\ (args.password.present /\ args.password.value.some) =>
              /\ lastCall = Returned("password", Some(args.password.value.val))
              /\ lastCall.value # None
              /\ prompts = 0
        /\ (args.password.present /\ ~args.password.value.some) =>
              /\ prompts > 0
              /\ lastCall.outcome = "returned" =>
                    /\ promptResult.kind = "line"
                    /\ lastCall.value = Some(promptResult.line)

C4_Witness ==
    /\ args.password = [present |-> TRUE, value |-> Some(<<>>)]
    /\ lastCall.fn = "password"
    /\ lastCall.outcome = "returned"
    /\ lastCall.value = Some(<<>>)

\* C5: for a raw name that is not all whitespace, name() returns Some of
\* exactly the raw value; with the name flag absent it returns None and
\* nothing fails.
C5_NameReturnsRaw ==
    lastCall.fn = "name" =>
        /\ (args.name.some /\ ~AllWhitespace(args.name.val)) =>
              lastCall = Returned("name", Some(args.name.val)) /\ pc = "running"
        /\ ~args.name.some =>
              lastCall = Returned("name", None) /\ pc = "running" /\ panicMsg = None

C5_Witness ==
    /\ args.name = Some(<<" ", "a", " ">>)
    /\ lastCall.fn = "name"
    /\ lastCall.outcome = "returned"
    /\ lastCall.value = Some(<<" ", "a", " ">>)

\* C6: for a raw name that is empty or all whitespace, name() fails with
\* the empty-name error and returns nothing; a name the caller gets is
\* never empty after trimming.
C6_EmptyNameRejected ==
    lastCall.fn = "name" =>
        /\ (args.name.some /\ AllWhitespace(args.name.val)) =>
              /\ lastCall = Aborted("name", "panicked")
              /\ panicMsg = Some("the new name must not be empty")
              /\ pc = "panicked"
        /\ (lastCall.outcome = "returned" /\ lastCall.value.some) =>
              ~AllWhitespace(lastCall.value.val)

C6_Witness ==
    /\ args.name = Some(<<" ">>)
    /\ lastCall = Aborted("name", "panicked")
    /\ panicMsg = Some("the new name must not be empty")

\* C7: with --host left out, host() reads the default host constant and
\* returns the address that parsing the constant gives; it neither reports
\* a parse failure nor hits the missing-host fault.
C7_DefaultHost ==
    (lastCall.fn = "host" /\ ~args.host.some) =>
        /\ UrlParse(SEND_DEF_HOST).ok
        /\ lastCall = Returned("host", UrlParse(SEND_DEF_HOST).url)
        /\ diag = <<>>
        /\ panicMsg = None
        /\ pc = "running"

C7_Witness ==
    /\ ~args.host.some
    /\ lastCall.fn = "host"
    /\ lastCall.outcome = "returned"
    /\ lastCall.value = "https://send.firefox.com/"

\* C8 as stated: over any sequence of accessor calls at most one password
\* prompt is issued.
C8_AtMostOnePrompt == prompts <= 1

\* C8 as amended: a call of password() issues at most one prompt, and only
\* when the flag came without a value, so the prompts never outnumber the
\* calls of password() and a run that calls it at most once prompts at most
\* once.
C8_PromptsBoundedByCalls ==
    /\ prompts <= pwCalls
    /\ pwCalls <= 1 => prompts <= 1
    /\ prompts > 0 => args.password.present /\ ~args.password.value.some

C8_Witness ==
    /\ prompts = 1
    /\ pwCalls = 1
    /\ lastCall.fn = "password"
    /\ lastCall.outcome = "returned"

\* C9: each acquisition runs Unrequested -> Unset | ExplicitValue |
\* PromptPending -> PromptResolved: PromptPending is entered only when the
\* flag is present without a value, nothing follows Unset, ExplicitValue or
\* PromptResolved, and after PromptPending comes neither Unset nor
\* ExplicitValue.
C9_PasswordStateMachine ==
    /\ pwTrace \in { <<"Unrequested">>,
                     <<"Unrequested", "Unset">>,
                     <<"Unrequested", "ExplicitValue">>,
                     <<"Unrequested", "PromptPending">>,
                     <<"Unrequested", "PromptPending", "PromptResolved">> }
    /\ (\E i \in 1..Len(pwTrace) : pwTrace[i] = "PromptPending") =>
          args.password.present /\ ~args.password.value.some
    /\ (\E i \in 1..Len(pwTrace) : pwTrace[i] = "Unset") => ~args.password.present
    /\ (\E i \in 1..Len(pwTrace) : pwTrace[i] = "ExplicitValue") =>
          args.password.present /\ args.password.value.some
    /\ pc = "prompting" => pwTrace[Len(pwTrace)] = "PromptPending"
    /\ pwTrace[Len(pwTrace)] = "PromptPending" => pc \in {"prompting", "panicked"}

C9_Witness == pwTrace = <<"Unrequested", "PromptPending", "PromptResolved">>

\* C10: password() returns Some only for an explicit value or for a prompt
\* that read a line; when the read at the prompt fails the call aborts and
\* returns nothing, neither Some nor None.
C10_SomeOnlyIfSupplied ==
    /\ (lastCall.fn = "password" /\ lastCall.outcome = "returned" /\ lastCall.value.some) =>
          \/ /\ args.password.value.some
             /\ lastCall.value = args.password.value
          \/ /\ promptResult.kind = "line"
             /\ pwTrace[Len(pwTrace)] = "PromptResolved"
             /\ lastCall.value = Some(promptResult.line)
    /\ promptResult.kind = "error" =>
          /\ lastCall = Aborted("password", "panicked")
          /\ pc = "panicked"
          /\ panicMsg = Some("failed to read password from stdin")

C10_Witness ==
    /\ promptResult.kind = "error"
    /\ lastCall = Aborted("password", "panicked")

====
